---------------------------- MODULE Spec2Model ----------------------------
(***************************************************************************)
(* Model of the encrypt package of asterogo (src/encrypt/encrypt_func.go): *)
(* the Cipher Core (NewService, Encrypt, Decrypt, EncryptBytes,            *)
(* DecryptBytes) and the record transformer (EncryptStruct, DecryptStruct, *)
(* EncryptFields, DecryptFields).                                          *)
(*                                                                         *)
(* Bytes are the integers 0..255 and a Go string is the sequence of its    *)
(* bytes.  base64.StdEncoding is modelled digit by digit.  The AES-GCM     *)
(* engine of the Go standard library is replaced by a small AEAD with the  *)
(* same interface and framing (NonceSize, Seal appends ciphertext and tag  *)
(* to dst, Open checks the tag before it returns anything): a keystream    *)
(* added to the plaintext and a position-weighted checksum as the tag.     *)
(***************************************************************************)
EXTENDS Integers, Sequences, FiniteSets, TLC

VARIABLES
    svc,      \* the *Service NewService returned: [ok, gcm]; gcm holds the key
    op,       \* name of the last function of the Cipher Core that ran
    arg,      \* its argument (a key, a string or a byte slice)
    origin,   \* how the argument was obtained: "fresh", "sealed", "tampered",
              \* "pool", "foreign", "truncated"
    tamperAt, \* the byte of the sealed payload a tampered argument differs at,
              \* or the length a truncated one was cut to
    out,      \* the value it returned
    err,      \* the error it returned
    reads,    \* the rand.Reader reads it made
    aead,     \* the gcm.Seal / gcm.Open invocations it made
    sealed,   \* the encryption whose payload the last call returned or was
              \* given: [has, mode, key, pt, nonce, out]
    seals,    \* the successful encryptions of a run, in order (SpecFresh)
    rec,      \* the caller's record, a struct value
    pre,      \* the record as it was before the last record-level call
    rop,      \* name of the last record-level call
    rhow,     \* how the record was passed to it ("ptr", "value", "ptrptr"), or
              \* what was passed in its place ("nil", "nilptr", "ptrint")
    rnames,   \* the field names passed to it (EncryptFields / DecryptFields)
    rerr,     \* the error it returned
    rfail,    \* index of the field or name at which it aborted (0: none)
    rcore,    \* the Encrypt / Decrypt calls it made
    rcalls,   \* number of record-level calls so far
    trail,    \* the record-level calls so far, in order: [op, how, names, err,
              \* before], before being the record as the call found it
    calls,    \* the calls goroutines make on one Service at the same time, by
              \* caller: [pc, fn, arg, rnd, out, err, with] (SpecConc)
    nonces    \* the nonce buffers those calls allocated, by owner

cipherVars == <<svc, op, arg, origin, tamperAt, out, err, reads, aead, sealed>>
recordVars == <<rec, pre, rop, rhow, rnames, rerr, rfail, rcore, rcalls, trail>>
concVars == <<calls, nonces>>
vars == <<cipherVars, seals, recordVars, concVars>>

----------------------------------------------------------------------------
(* Bounds of the exploration.                                              *)

\* longest plaintext handed to Encrypt / EncryptBytes
MaxLen == 3
\* most record-level calls made on one record
MaxCalls == 2
\* most successful encryptions under one key whose nonces are compared
MaxSeals == 3
\* most goroutines calling one Service at the same time
MaxCallers == 2
\* most EncryptStruct calls made in a row on one record
MaxLayers == 2

\* first bytes of the explored plaintexts: "A" and 0xFF
PlainSeeds == {65, 255}
\* amounts a tampered byte is changed by (mod 256): +1 and -1
TamperDeltas == {1, 255}

----------------------------------------------------------------------------
(* Errors.                                                                 *)

nil == "nil"
ErrEncryptionFailed == "ErrEncryptionFailed"
ErrDecryptionFailed == "ErrDecryptionFailed"
ErrInvalidData == "ErrInvalidData"
ErrInvalidKeyLength == "ErrInvalidKeyLength"
ErrMissingKey == "ErrMissingKey"
\* the error aes.NewCipher returns for a key that is not 16, 24 or 32 bytes
KeySizeError == "aes.KeySizeError"
\* the *reflect.ValueError a reflect.Value method panics with when the Value
\* is not of the kind the method is for
Panic == "panic: reflect.ValueError"

----------------------------------------------------------------------------
(* Byte sequences.                                                         *)

Byte == 0..255

Fill(n, b) == [i \in 1..n |-> b]

Take(s, n) == SubSeq(s, 1, n)
Drop(s, n) == SubSeq(s, n + 1, Len(s))

RECURSIVE WSumRange(_, _, _)
WSumRange(s, lo, hi) ==
    IF lo > hi THEN 0
    ELSE IF lo = hi THEN ((2 * lo + 1) * s[lo]) % 256
    ELSE LET mid == (lo + hi) \div 2
         IN  (WSumRange(s, lo, mid) + WSumRange(s, mid + 1, hi)) % 256

\* position-weighted sum of a byte sequence, every weight odd
WSum(s) == WSumRange(s, 1, Len(s))


----------------------------------------------------------------------------
(* encoding/base64, StdEncoding: the alphabet A-Z a-z 0-9 + /, padding     *)
(* with "=", and a decoder that skips "\r" and "\n" and does not check the *)
(* unused trailing bits (StdEncoding is not Strict).                       *)

PadChar == 61
NewlineChars == {10, 13}

\* the character of a 6-bit digit
EncodeStd(v) ==
    IF v < 26 THEN 65 + v
    ELSE IF v < 52 THEN 97 + (v - 26)
    ELSE IF v < 62 THEN 48 + (v - 52)
    ELSE IF v = 62 THEN 43 ELSE 47

\* the 6-bit digit of a character, 255 for a character outside the alphabet
DecodeMap(c) ==
    IF c >= 65 /\ c <= 90 THEN c - 65
    ELSE IF c >= 97 /\ c <= 122 THEN c - 97 + 26
    ELSE IF c >= 48 /\ c <= 57 THEN c - 48 + 52
    ELSE IF c = 43 THEN 62
    ELSE IF c = 47 THEN 63
    ELSE 255

\* three source bytes become four digits; a last group of one or two bytes is
\* filled with zero bits and closed with "==" or "="
EncodeToString(src) ==
    LET n == Len(src)
        byteAt(i) == IF i <= n THEN src[i] ELSE 0
        char(k) ==
            LET g == (k - 1) \div 4
                j == (k - 1) % 4
                val == byteAt(3 * g + 1) * 65536 + byteAt(3 * g + 2) * 256
                           + byteAt(3 * g + 3)
            IN  IF j = 0 THEN EncodeStd(val \div 262144)
                ELSE IF j = 1 THEN EncodeStd((val \div 4096) % 64)
                ELSE IF j = 2 THEN
                    IF 3 * g + 2 > n THEN PadChar ELSE EncodeStd((val \div 64) % 64)
                ELSE
                    IF 3 * g + 3 > n THEN PadChar ELSE EncodeStd(val % 64)
    IN  [k \in 1..(4 * ((n + 2) \div 3)) |-> char(k)]

StripNewlines(s) == SelectSeq(s, LAMBDA c : c \notin NewlineChars)

\* the decoder on a string without newlines: [err, data].  The input must be
\* whole quanta of four characters, all of the alphabet, except that the last
\* quantum may end with "=" (two bytes) or "==" (one byte)
DecodeQuanta(t) ==
    LET m == Len(t)
        padded(k) == \/ k = m /\ t[k] = PadChar
                     \/ k = m - 1 /\ t[k] = PadChar /\ t[m] = PadChar
        corrupt == \/ m % 4 # 0
                   \/ \E k \in 1..m : DecodeMap(t[k]) = 255 /\ ~padded(k)
        pads == IF m = 0 \/ t[m] # PadChar THEN 0
                ELSE IF t[m - 1] # PadChar THEN 1 ELSE 2
        digit(k) == IF DecodeMap(t[k]) = 255 THEN 0 ELSE DecodeMap(t[k])
        byte(k) ==
            LET g == (k - 1) \div 3
                j == (k - 1) % 3
                d1 == digit(4 * g + 1)
                d2 == digit(4 * g + 2)
                d3 == digit(4 * g + 3)
                d4 == digit(4 * g + 4)
            IN  IF j = 0 THEN (d1 * 4 + d2 \div 16) % 256
                ELSE IF j = 1 THEN ((d2 % 16) * 16 + d3 \div 4) % 256
                ELSE ((d3 % 4) * 64 + d4) % 256
    IN  IF corrupt THEN [err |-> TRUE, data |-> <<>>]
        ELSE [err |-> FALSE, data |-> [k \in 1..(3 * (m \div 4) - pads) |-> byte(k)]]

DecodeString(s) == DecodeQuanta(StripNewlines(s))

----------------------------------------------------------------------------
(* crypto/cipher AEAD as the Service uses it.                              *)

\* gcm.NonceSize(): the standard GCM nonce
NonceSize == 12
\* gcm.Overhead(): the tag Seal appends
TagSize == 16

\* what the engine keeps of the key
Digest(key) == (WSum(key) + Len(key)) % 256

\* the counter block the keystream of (key, nonce) starts from
Counter0(key, nonce) == (Digest(key) + WSum(nonce)) % 256

KeyStream(c0, i) == (c0 + 13 * i) % 256

TagOf(c0, ct) ==
    LET t0 == (c0 + WSum(ct) + Len(ct)) % 256
    IN  [j \in 1..TagSize |-> (t0 + 31 * j) % 256]

\* gcm.Seal(dst, nonce, plaintext, nil): dst with ciphertext and tag appended
Seal(key, dst, nonce, plaintext) ==
    LET c0 == Counter0(key, nonce)
        ct == [i \in 1..Len(plaintext) |-> (plaintext[i] + KeyStream(c0, i)) % 256]
    IN  dst \o ct \o TagOf(c0, ct)

\* gcm.Open(nil, nonce, ciphertext, nil): [err, plaintext]; the plaintext is
\* released only when the tag matches
Open(key, nonce, ciphertext) ==
    IF Len(ciphertext) < TagSize THEN [err |-> TRUE, plaintext |-> <<>>]
    ELSE
        LET n == Len(ciphertext) - TagSize
            ct == Take(ciphertext, n)
            tag == Drop(ciphertext, n)
            c0 == Counter0(key, nonce)
        IN  IF tag # TagOf(c0, ct) THEN [err |-> TRUE, plaintext |-> <<>>]
            ELSE [err |-> FALSE,
                  plaintext |-> [i \in 1..n |-> (ct[i] + 256 - KeyStream(c0, i)) % 256]]


----------------------------------------------------------------------------
(* The Cipher Core: Service and its methods.  A method is an operator from *)
(* the receiver, the argument and, for the encrypting ones, the outcome    *)
(* rnd = [ok, bytes] of io.ReadFull(rand.Reader, nonce), to what it        *)
(* returns: out and err, plus reads (rand.Reader reads made), nonce (the   *)
(* nonce drawn, <<>> if none) and aead (gcm.Seal / gcm.Open invocations).  *)

NoService == [ok |-> FALSE, gcm |-> <<>>]

\* aes.NewCipher accepts 16, 24 and 32 byte keys and returns KeySizeError
\* for every other length; the error is passed on as it is
NewService(key) ==
    IF Len(key) \notin {16, 24, 32}
    THEN [svc |-> NoService, err |-> KeySizeError]
    ELSE [svc |-> [ok |-> TRUE, gcm |-> key], err |-> nil]

Ret(o, e, r, n, a) == [out |-> o, err |-> e, reads |-> r, nonce |-> n, aead |-> a]

\* Encrypt with Seal(nil, nonce, ...): the nonce is not put in front
EncryptNonceNotPrepended(s, plaintext, rnd) ==
    IF plaintext = <<>> THEN Ret(<<>>, nil, 0, <<>>, 0)
    ELSE IF ~rnd.ok THEN Ret(<<>>, ErrEncryptionFailed, 1, <<>>, 0)
    ELSE
        LET nonce == rnd.bytes
            ciphertext == Seal(s.gcm, <<>>, nonce, plaintext)
        IN  Ret(EncodeToString(ciphertext), nil, 1, nonce, 1)

\* Encrypt that never fills the nonce it allocated from what rand.Reader gave
EncryptNonceLeftZero(s, plaintext, rnd) ==
    IF plaintext = <<>> THEN Ret(<<>>, nil, 0, <<>>, 0)
    ELSE IF ~rnd.ok THEN Ret(<<>>, ErrEncryptionFailed, 1, <<>>, 0)
    ELSE
        LET nonce == Fill(NonceSize, 0)
            ciphertext == Seal(s.gcm, nonce, nonce, plaintext)
        IN  Ret(EncodeToString(ciphertext), nil, 1, nonce, 1)

\* Encrypt without the early return for the empty string
EncryptNoEmptyCheck(s, plaintext, rnd) ==
    IF ~rnd.ok THEN Ret(<<>>, ErrEncryptionFailed, 1, <<>>, 0)
    ELSE
        LET nonce == rnd.bytes
            ciphertext == Seal(s.gcm, nonce, nonce, plaintext)
        IN  Ret(EncodeToString(ciphertext), nil, 1, nonce, 1)

\* Encrypt that puts a version byte in front of the payload
EncryptVersionPrefixed(s, plaintext, rnd) ==
    IF plaintext = <<>> THEN Ret(<<>>, nil, 0, <<>>, 0)
    ELSE IF ~rnd.ok THEN Ret(<<>>, ErrEncryptionFailed, 1, <<>>, 0)
    ELSE
        LET nonce == rnd.bytes
            ciphertext == Seal(s.gcm, <<1>> \o nonce, nonce, plaintext)
        IN  Ret(EncodeToString(ciphertext), nil, 1, nonce, 1)

Encrypt(s, plaintext, rnd) ==
    IF plaintext = <<>> THEN Ret(<<>>, nil, 0, <<>>, 0)
    ELSE IF ~rnd.ok THEN Ret(<<>>, ErrEncryptionFailed, 1, <<>>, 0)
    ELSE
        LET nonce == rnd.bytes
            ciphertext == Seal(s.gcm, nonce, nonce, plaintext)
        IN  Ret(EncodeToString(ciphertext), nil, 1, nonce, 1)

\* Decrypt that drops the error of gcm.Open
DecryptOpenErrorIgnored(s, ciphertext) ==
    IF ciphertext = <<>> THEN Ret(<<>>, nil, 0, <<>>, 0)
    ELSE
        LET dec == DecodeString(ciphertext)
            data == dec.data
        IN  IF dec.err THEN Ret(<<>>, ErrInvalidData, 0, <<>>, 0)
            ELSE IF Len(data) < NonceSize THEN Ret(<<>>, ErrInvalidData, 0, <<>>, 0)
            ELSE Ret(Open(s.gcm, Take(data, NonceSize), Drop(data, NonceSize)).plaintext,
                     nil, 0, <<>>, 1)

\* Decrypt that reports a base64 error as a failed decryption
DecryptDecodeErrorAsFailure(s, ciphertext) ==
    IF ciphertext = <<>> THEN Ret(<<>>, nil, 0, <<>>, 0)
    ELSE
        LET dec == DecodeString(ciphertext)
            data == dec.data
        IN  IF dec.err THEN Ret(<<>>, ErrDecryptionFailed, 0, <<>>, 0)
            ELSE IF Len(data) < NonceSize THEN Ret(<<>>, ErrInvalidData, 0, <<>>, 0)
            ELSE
                LET opened == Open(s.gcm, Take(data, NonceSize), Drop(data, NonceSize))
                IN  IF opened.err THEN Ret(<<>>, ErrDecryptionFailed, 0, <<>>, 1)
                    ELSE Ret(opened.plaintext, nil, 0, <<>>, 1)

Decrypt(s, ciphertext) ==
    IF ciphertext = <<>> THEN Ret(<<>>, nil, 0, <<>>, 0)
    ELSE
        LET dec == DecodeString(ciphertext)
            data == dec.data
        IN  IF dec.err THEN Ret(<<>>, ErrInvalidData, 0, <<>>, 0)
            ELSE IF Len(data) < NonceSize THEN Ret(<<>>, ErrInvalidData, 0, <<>>, 0)
            ELSE
                LET nonce == Take(data, NonceSize)
                    encrypted == Drop(data, NonceSize)
                    opened == Open(s.gcm, nonce, encrypted)
                IN  IF opened.err THEN Ret(<<>>, ErrDecryptionFailed, 0, <<>>, 1)
                    ELSE Ret(opened.plaintext, nil, 0, <<>>, 1)

EncryptBytes(s, plaintext, rnd) ==
    IF Len(plaintext) = 0 THEN Ret(<<>>, nil, 0, <<>>, 0)
    ELSE IF ~rnd.ok THEN Ret(<<>>, ErrEncryptionFailed, 1, <<>>, 0)
    ELSE
        LET nonce == rnd.bytes
        IN  Ret(Seal(s.gcm, nonce, nonce, plaintext), nil, 1, nonce, 1)

\* DecryptBytes that takes a payload too short to hold a tag for invalid data
DecryptBytesShortAsInvalid(s, ciphertext) ==
    IF Len(ciphertext) = 0 THEN Ret(<<>>, nil, 0, <<>>, 0)
    ELSE IF Len(ciphertext) < NonceSize + TagSize
    THEN Ret(<<>>, ErrInvalidData, 0, <<>>, 0)
    ELSE
        LET nonce == Take(ciphertext, NonceSize)
            encrypted == Drop(ciphertext, NonceSize)
            opened == Open(s.gcm, nonce, encrypted)
        IN  IF opened.err THEN Ret(<<>>, ErrDecryptionFailed, 0, <<>>, 1)
            ELSE Ret(opened.plaintext, nil, 0, <<>>, 1)

\* DecryptBytes that hands out what gcm.Open was given when gcm.Open fails
DecryptBytesLeaksOnFailure(s, ciphertext) ==
    IF Len(ciphertext) = 0 THEN Ret(<<>>, nil, 0, <<>>, 0)
    ELSE IF Len(ciphertext) < NonceSize THEN Ret(<<>>, ErrInvalidData, 0, <<>>, 0)
    ELSE
        LET nonce == Take(ciphertext, NonceSize)
            encrypted == Drop(ciphertext, NonceSize)
            opened == Open(s.gcm, nonce, encrypted)
        IN  IF opened.err THEN Ret(encrypted, ErrDecryptionFailed, 0, <<>>, 1)
            ELSE Ret(opened.plaintext, nil, 0, <<>>, 1)

DecryptBytes(s, ciphertext) ==
    IF Len(ciphertext) = 0 THEN Ret(<<>>, nil, 0, <<>>, 0)
    ELSE IF Len(ciphertext) < NonceSize THEN Ret(<<>>, ErrInvalidData, 0, <<>>, 0)
    ELSE
        LET nonce == Take(ciphertext, NonceSize)
            encrypted == Drop(ciphertext, NonceSize)
            opened == Open(s.gcm, nonce, encrypted)
        IN  IF opened.err THEN Ret(<<>>, ErrDecryptionFailed, 0, <<>>, 1)
            ELSE Ret(opened.plaintext, nil, 0, <<>>, 1)


----------------------------------------------------------------------------
(* The record transformer.  A struct value is the sequence of its fields   *)
(* in declaration order; a field is                                        *)
(*   [name, tag, kind, exported, embedded, str, sub]                       *)
(* with tag the value of the encrypt key of its struct tag ("" if absent), *)
(* kind its reflect.Kind ("string", "int", "ptr", "struct"), str its value *)
(* if it is a string and sub its fields if it is a struct.  The argument v *)
(* of a record-level call is [how, rec]: how the caller passed the record  *)
(* ("ptr": &rec, "value": rec, "ptrptr": &p with p == &rec) or what it     *)
(* passed instead ("nil", "nilptr": a nil *User, "ptrint": &n).  plan =    *)
(* [seed, failAt] fixes what rand.Reader gives to the Encrypt calls of one *)
(* record-level call.                                                      *)

\* reflect.ValueOf(v), after the Elem() of a pointer: is it a struct, and is
\* it addressable (reached through a pointer); it is the zero Value for nil
\* and for a nil pointer, a pointer for &p, an int for &n
IsStruct(v) == v.how \in {"ptr", "value"}

\* a struct Value taken for addressable however it was reached
AddressableAlways(v) == TRUE

Addressable(v) == v.how = "ptr"

\* Value.CanSet of a field: addressable and reached through exported fields
CanSet(field, addressable) == addressable /\ field.exported

\* the rand.Reader outcome of the c-th Encrypt call under a plan
RndOf(plan, c) ==
    IF plan.failAt = c THEN [ok |-> FALSE, bytes |-> <<>>]
    ELSE [ok |-> TRUE,
          bytes |-> [i \in 1..NonceSize |-> (plan.seed + 17 * i * c) % 256]]

RRet(r, e, f, c) == [rec |-> r, err |-> e, fail |-> f, calls |-> c]

RECURSIVE EncryptStructLoopAnyTag(_, _, _, _, _, _)
\* the loop of EncryptStruct taking every non-empty encrypt tag for "true"
EncryptStructLoopAnyTag(s, val, addressable, i, plan, c) ==
    IF i > Len(val) THEN RRet(val, nil, 0, c)
    ELSE
        LET field == val[i]
        IN  IF field.tag = ""
                \/ field.kind # "string" \/ ~CanSet(field, addressable)
                \/ field.str = <<>>
            THEN EncryptStructLoopAnyTag(s, val, addressable, i + 1, plan, c)
            ELSE
                LET r == Encrypt(s, field.str, RndOf(plan, c + 1))
                IN  IF r.err # nil THEN RRet(val, r.err, i, c + 1)
                    ELSE EncryptStructLoopAnyTag(s, [val EXCEPT ![i].str = r.out],
                                                 addressable, i + 1, plan, c + 1)

RECURSIVE EncryptStructLoopStopsAtUnsuitable(_, _, _, _, _, _)
\* the loop of EncryptStruct leaving the loop, where it should go on to the
\* next field, at a tagged field that is no string or cannot be set
EncryptStructLoopStopsAtUnsuitable(s, val, addressable, i, plan, c) ==
    IF i > Len(val) THEN RRet(val, nil, 0, c)
    ELSE
        LET field == val[i]
        IN  IF field.tag # "true"
            THEN EncryptStructLoopStopsAtUnsuitable(s, val, addressable, i + 1, plan, c)
            ELSE IF field.kind # "string" \/ ~CanSet(field, addressable)
            THEN RRet(val, nil, 0, c)
            ELSE IF field.str = <<>>
            THEN EncryptStructLoopStopsAtUnsuitable(s, val, addressable, i + 1, plan, c)
            ELSE
                LET r == Encrypt(s, field.str, RndOf(plan, c + 1))
                IN  IF r.err # nil THEN RRet(val, r.err, i, c + 1)
                    ELSE EncryptStructLoopStopsAtUnsuitable(
                             s, [val EXCEPT ![i].str = r.out], addressable, i + 1,
                             plan, c + 1)

RECURSIVE EncryptStructLoopSkipsEncrypted(_, _, _, _, _, _)
\* the loop of EncryptStruct passing over a field that already holds
\* something Decrypt accepts
EncryptStructLoopSkipsEncrypted(s, val, addressable, i, plan, c) ==
    IF i > Len(val) THEN RRet(val, nil, 0, c)
    ELSE
        LET field == val[i]
        IN  IF field.tag # "true"
            THEN EncryptStructLoopSkipsEncrypted(s, val, addressable, i + 1, plan, c)
            ELSE IF field.kind # "string" \/ ~CanSet(field, addressable)
            THEN EncryptStructLoopSkipsEncrypted(s, val, addressable, i + 1, plan, c)
            ELSE IF field.str = <<>> \/ Decrypt(s, field.str).err = nil
            THEN EncryptStructLoopSkipsEncrypted(s, val, addressable, i + 1, plan, c)
            ELSE
                LET r == Encrypt(s, field.str, RndOf(plan, c + 1))
                IN  IF r.err # nil THEN RRet(val, r.err, i, c + 1)
                    ELSE EncryptStructLoopSkipsEncrypted(
                             s, [val EXCEPT ![i].str = r.out], addressable, i + 1,
                             plan, c + 1)

RECURSIVE EncryptStructLoop(_, _, _, _, _, _)
\* the loop of EncryptStruct from field i on, after c Encrypt calls
EncryptStructLoop(s, val, addressable, i, plan, c) ==
    IF i > Len(val) THEN RRet(val, nil, 0, c)
    ELSE
        LET field == val[i]
        IN  IF field.tag # "true"
            THEN EncryptStructLoop(s, val, addressable, i + 1, plan, c)
            ELSE IF field.kind # "string" \/ ~CanSet(field, addressable)
            THEN EncryptStructLoop(s, val, addressable, i + 1, plan, c)
            ELSE IF field.str = <<>>
            THEN EncryptStructLoop(s, val, addressable, i + 1, plan, c)
            ELSE
                LET r == Encrypt(s, field.str, RndOf(plan, c + 1))
                IN  IF r.err # nil THEN RRet(val, r.err, i, c + 1)
                    ELSE EncryptStructLoop(s, [val EXCEPT ![i].str = r.out],
                                           addressable, i + 1, plan, c + 1)

EncryptStruct(s, v, plan) ==
    IF ~IsStruct(v) THEN RRet(v.rec, nil, 0, 0)
    ELSE EncryptStructLoop(s, v.rec, Addressable(v), 1, plan, 0)

RECURSIVE DecryptStructLoopFirstOnly(_, _, _, _, _)
\* the loop of DecryptStruct returning nil after the first field it decrypted
DecryptStructLoopFirstOnly(s, val, addressable, i, c) ==
    IF i > Len(val) THEN RRet(val, nil, 0, c)
    ELSE
        LET field == val[i]
        IN  IF field.tag # "true"
            THEN DecryptStructLoopFirstOnly(s, val, addressable, i + 1, c)
            ELSE IF field.kind # "string" \/ ~CanSet(field, addressable)
            THEN DecryptStructLoopFirstOnly(s, val, addressable, i + 1, c)
            ELSE IF field.str = <<>>
            THEN DecryptStructLoopFirstOnly(s, val, addressable, i + 1, c)
            ELSE
                LET r == Decrypt(s, field.str)
                IN  IF r.err # nil THEN RRet(val, r.err, i, c + 1)
                    ELSE RRet([val EXCEPT ![i].str = r.out], nil, 0, c + 1)

RECURSIVE DecryptStructLoop(_, _, _, _, _)
DecryptStructLoop(s, val, addressable, i, c) ==
    IF i > Len(val) THEN RRet(val, nil, 0, c)
    ELSE
        LET field == val[i]
        IN  IF field.tag # "true"
            THEN DecryptStructLoop(s, val, addressable, i + 1, c)
            ELSE IF field.kind # "string" \/ ~CanSet(field, addressable)
            THEN DecryptStructLoop(s, val, addressable, i + 1, c)
            ELSE IF field.str = <<>>
            THEN DecryptStructLoop(s, val, addressable, i + 1, c)
            ELSE
                LET r == Decrypt(s, field.str)
                IN  IF r.err # nil THEN RRet(val, r.err, i, c + 1)
                    ELSE DecryptStructLoop(s, [val EXCEPT ![i].str = r.out],
                                           addressable, i + 1, c + 1)

\* DecryptStruct that gives the caller its record back unchanged when a field fails
DecryptStructRollback(s, v) ==
    IF ~IsStruct(v) THEN RRet(v.rec, nil, 0, 0)
    ELSE LET r == DecryptStructLoop(s, v.rec, Addressable(v), 1, 0)
         IN  IF r.err # nil THEN RRet(v.rec, r.err, r.fail, r.calls) ELSE r

DecryptStruct(s, v) ==
    IF ~IsStruct(v) THEN RRet(v.rec, nil, 0, 0)
    ELSE DecryptStructLoop(s, v.rec, Addressable(v), 1, 0)

RECURSIVE FieldAt(_, _)
\* the field an index path leads to
FieldAt(val, path) ==
    IF Len(path) = 1 THEN val[path[1]] ELSE FieldAt(val[path[1]].sub, Tail(path))

RECURSIVE SetStringAt(_, _, _)
\* Value.SetString on the field an index path leads to
SetStringAt(val, path, x) ==
    IF Len(path) = 1 THEN [val EXCEPT ![path[1]].str = x]
    ELSE [val EXCEPT ![path[1]].sub = SetStringAt(@, Tail(path), x)]

RECURSIVE EmbeddedDepth(_)
\* how deep embedded structs nest in a struct value
EmbeddedDepth(val) ==
    LET inner == {i \in 1..Len(val) : val[i].embedded /\ val[i].kind = "struct"}
        depths == {EmbeddedDepth(val[i].sub) : i \in inner}
    IN  IF inner = {} THEN 0
        ELSE 1 + CHOOSE d \in depths : \A e \in depths : e <= d

RECURSIVE PathsAt(_, _)
\* the index paths to the fields d embedded structs deep
PathsAt(val, d) ==
    IF d = 0 THEN {<<i>> : i \in 1..Len(val)}
    ELSE UNION {{<<i>> \o q : q \in PathsAt(val[i].sub, d - 1)} :
                   i \in {j \in 1..Len(val) : val[j].embedded /\ val[j].kind = "struct"}}

RECURSIVE FieldByNameFrom(_, _, _)
FieldByNameFrom(val, name, d) ==
    LET found == {q \in PathsAt(val, d) : FieldAt(val, q).name = name}
    IN  IF Cardinality(found) = 1 THEN CHOOSE q \in found : TRUE
        ELSE IF Cardinality(found) > 1 THEN <<>>
        ELSE IF d >= EmbeddedDepth(val) THEN <<>>
        ELSE FieldByNameFrom(val, name, d + 1)

\* Value.FieldByName: the index path of the field of that name, looked up
\* among the struct's own fields first and then, level by level, among the
\* fields promoted from embedded structs; <<>> (the zero Value) if there is
\* none or if two fields of one level have the name
FieldByName(val, name) == FieldByNameFrom(val, name, 0)

RECURSIVE EncryptFieldsLoopTaggedOnly(_, _, _, _, _, _, _)
\* the loop of EncryptFields that also asks for the encrypt:"true" tag
EncryptFieldsLoopTaggedOnly(s, val, addressable, fieldNames, k, plan, c) ==
    IF k > Len(fieldNames) THEN RRet(val, nil, 0, c)
    ELSE
        LET path == FieldByName(val, fieldNames[k])
        IN  IF path = <<>> \/ ~CanSet(FieldAt(val, path), addressable)
                \/ FieldAt(val, path).tag # "true"
                \/ FieldAt(val, path).kind # "string"
                \/ FieldAt(val, path).str = <<>>
            THEN EncryptFieldsLoopTaggedOnly(s, val, addressable, fieldNames, k + 1,
                                             plan, c)
            ELSE
                LET r == Encrypt(s, FieldAt(val, path).str, RndOf(plan, c + 1))
                IN  IF r.err # nil THEN RRet(val, r.err, k, c + 1)
                    ELSE EncryptFieldsLoopTaggedOnly(s, SetStringAt(val, path, r.out),
                                                     addressable, fieldNames, k + 1,
                                                     plan, c + 1)

RECURSIVE EncryptFieldsLoop(_, _, _, _, _, _, _)
\* the loop of EncryptFields from the k-th name on, after c Encrypt calls
EncryptFieldsLoop(s, val, addressable, fieldNames, k, plan, c) ==
    IF k > Len(fieldNames) THEN RRet(val, nil, 0, c)
    ELSE
        LET path == FieldByName(val, fieldNames[k])
        IN  IF path = <<>> \/ ~CanSet(FieldAt(val, path), addressable)
            THEN EncryptFieldsLoop(s, val, addressable, fieldNames, k + 1, plan, c)
            ELSE IF FieldAt(val, path).kind # "string"
            THEN EncryptFieldsLoop(s, val, addressable, fieldNames, k + 1, plan, c)
            ELSE IF FieldAt(val, path).str = <<>>
            THEN EncryptFieldsLoop(s, val, addressable, fieldNames, k + 1, plan, c)
            ELSE
                LET r == Encrypt(s, FieldAt(val, path).str, RndOf(plan, c + 1))
                IN  IF r.err # nil THEN RRet(val, r.err, k, c + 1)
                    ELSE EncryptFieldsLoop(s, SetStringAt(val, path, r.out),
                                           addressable, fieldNames, k + 1, plan, c + 1)

\* there is no Kind check before the loop: val.FieldByName panics in its
\* first iteration when val is not a struct
EncryptFields(s, v, fieldNames, plan) ==
    IF ~IsStruct(v) /\ Len(fieldNames) > 0 THEN RRet(v.rec, Panic, 0, 0)
    ELSE IF ~IsStruct(v) THEN RRet(v.rec, nil, 0, 0)
    ELSE EncryptFieldsLoop(s, v.rec, Addressable(v), fieldNames, 1, plan, 0)

RECURSIVE DecryptFieldsLoopNoEmptyCheck(_, _, _, _, _, _)
\* the loop of DecryptFields handing a field to Decrypt without looking
\* whether it holds the empty string
DecryptFieldsLoopNoEmptyCheck(s, val, addressable, fieldNames, k, c) ==
    IF k > Len(fieldNames) THEN RRet(val, nil, 0, c)
    ELSE
        LET path == FieldByName(val, fieldNames[k])
        IN  IF path = <<>> \/ ~CanSet(FieldAt(val, path), addressable)
            THEN DecryptFieldsLoopNoEmptyCheck(s, val, addressable, fieldNames, k + 1, c)
            ELSE IF FieldAt(val, path).kind # "string"
            THEN DecryptFieldsLoopNoEmptyCheck(s, val, addressable, fieldNames, k + 1, c)
            ELSE
                LET r == Decrypt(s, FieldAt(val, path).str)
                IN  IF r.err # nil THEN RRet(val, r.err, k, c + 1)
                    ELSE DecryptFieldsLoopNoEmptyCheck(
                             s, SetStringAt(val, path, r.out), addressable,
                             fieldNames, k + 1, c + 1)

RECURSIVE DecryptFieldsLoop(_, _, _, _, _, _)
DecryptFieldsLoop(s, val, addressable, fieldNames, k, c) ==
    IF k > Len(fieldNames) THEN RRet(val, nil, 0, c)
    ELSE
        LET path == FieldByName(val, fieldNames[k])
        IN  IF path = <<>> \/ ~CanSet(FieldAt(val, path), addressable)
            THEN DecryptFieldsLoop(s, val, addressable, fieldNames, k + 1, c)
            ELSE IF FieldAt(val, path).kind # "string"
            THEN DecryptFieldsLoop(s, val, addressable, fieldNames, k + 1, c)
            ELSE IF FieldAt(val, path).str = <<>>
            THEN DecryptFieldsLoop(s, val, addressable, fieldNames, k + 1, c)
            ELSE
                LET r == Decrypt(s, FieldAt(val, path).str)
                IN  IF r.err # nil THEN RRet(val, r.err, k, c + 1)
                    ELSE DecryptFieldsLoop(s, SetStringAt(val, path, r.out),
                                           addressable, fieldNames, k + 1, c + 1)

DecryptFields(s, v, fieldNames) ==
    IF ~IsStruct(v) /\ Len(fieldNames) > 0 THEN RRet(v.rec, Panic, 0, 0)
    ELSE IF ~IsStruct(v) THEN RRet(v.rec, nil, 0, 0)
    ELSE DecryptFieldsLoop(s, v.rec, Addressable(v), fieldNames, 1, 0)

----------------------------------------------------------------------------
(* Inputs of the exploration.                                              *)

\* key lengths tried, the valid ones and their neighbours
KeyLens == {0, 15, 16, 17, 23, 24, 25, 31, 32, 33}
KeyPool == {Fill(n, 7) : n \in KeyLens}

\* what io.ReadFull(rand.Reader, nonce) may give: one of two nonces, or an error
NoncePool == {Fill(NonceSize, 0), [i \in 1..NonceSize |-> (17 * i) % 256]}
RandOutcomes ==
    {[ok |-> TRUE, bytes |-> n] : n \in NoncePool} \cup {[ok |-> FALSE, bytes |-> <<>>]}

\* the plaintexts tried: the empty one and, of every length up to MaxLen, one
\* starting with each seed
Plain == {[i \in 1..n |-> (b + 37 * (i - 1)) % 256] : n \in 0..MaxLen, b \in PlainSeeds}

\* "not-base64!!"
NotBase64 == <<110, 111, 116, 45, 98, 97, 115, 101, 54, 52, 33, 33>>

\* byte slices that no encryption made
BlobPool ==
    {<<>>, <<1, 2, 3>>, Fill(NonceSize - 1, 5), Fill(NonceSize, 0),
     Fill(NonceSize + TagSize, 0)}

\* strings that are not standard base64: a character outside the alphabet,
\* "AAA" (no whole quantum), "A===" and "AA=A" (padding out of place)
NotBase64Texts == {NotBase64, <<65, 65, 65>>, <<65, 61, 61, 61>>, <<65, 65, 61, 65>>}

\* strings that no encryption made: the encodings of BlobPool's members, the
\* strings that are not base64, and a string that holds only a newline
TextPool == {EncodeToString(b) : b \in BlobPool} \cup NotBase64Texts \cup {<<10>>}

Tamper(blob, i, d) == [blob EXCEPT ![i] = (@ + d) % 256]

NoSeal == [has |-> FALSE, mode |-> "none", key |-> <<>>, pt |-> <<>>,
           nonce |-> <<>>, out |-> <<>>]

\* the sealed payload (nonce, ciphertext, tag) of the latest encryption
SealedBlob == IF sealed.mode = "text" THEN DecodeString(sealed.out).data ELSE sealed.out

----------------------------------------------------------------------------
(* The Cipher Core as a state machine: one action per function.            *)

NoRecord == <<>>

InitRecordIdle ==
    /\ rec = NoRecord /\ pre = NoRecord /\ rop = "none" /\ rhow = "ptr"
    /\ rnames = <<>> /\ rerr = nil /\ rfail = 0 /\ rcore = 0 /\ rcalls = 0
    /\ trail = <<>>

Callers == 1..MaxCallers

NoRead == [ok |-> FALSE, bytes |-> <<>>]

\* a goroutine that is in no call
IdleCall == [pc |-> "idle", fn |-> "none", arg |-> <<>>, rnd |-> NoRead,
             out |-> <<>>, err |-> nil, with |-> {}]

InitConcIdle ==
    /\ calls = [p \in Callers |-> IdleCall]
    /\ nonces = [p \in Callers |-> <<>>]

Init ==
    /\ svc = NoService
    /\ op = "none" /\ arg = <<>> /\ origin = "fresh" /\ tamperAt = 0
    /\ out = <<>> /\ err = nil /\ reads = 0 /\ aead = 0
    /\ sealed = NoSeal
    /\ seals = <<>>
    /\ InitRecordIdle
    /\ InitConcIdle

Returned(name, a, from, at, r) ==
    /\ op' = name /\ arg' = a /\ origin' = from /\ tamperAt' = at
    /\ out' = r.out /\ err' = r.err /\ reads' = r.reads /\ aead' = r.aead

Remember(mode, pt, r) ==
    sealed' = IF r.err = nil /\ r.nonce # <<>>
              THEN [has |-> TRUE, mode |-> mode, key |-> svc.gcm, pt |-> pt,
                    nonce |-> r.nonce, out |-> r.out]
              ELSE NoSeal

DoNewService ==
    /\ ~svc.ok
    /\ \E key \in KeyPool :
        LET r == NewService(key)
        IN  /\ svc' = r.svc
            /\ op' = "NewService" /\ arg' = key /\ origin' = "fresh" /\ tamperAt' = 0
            /\ out' = <<>> /\ err' = r.err /\ reads' = 0 /\ aead' = 0
    /\ UNCHANGED <<sealed, seals, recordVars, concVars>>

DoEncrypt ==
    /\ svc.ok
    /\ \E plaintext \in Plain, rnd \in RandOutcomes :
        LET r == Encrypt(svc, plaintext, rnd)
        IN  /\ Returned("Encrypt", plaintext, "fresh", 0, r)
            /\ Remember("text", plaintext, r)
    /\ UNCHANGED <<svc, seals, recordVars, concVars>>

DoEncryptBytes ==
    /\ svc.ok
    /\ \E plaintext \in Plain, rnd \in RandOutcomes :
        LET r == EncryptBytes(svc, plaintext, rnd)
        IN  /\ Returned("EncryptBytes", plaintext, "fresh", 0, r)
            /\ Remember("bytes", plaintext, r)
    /\ UNCHANGED <<svc, seals, recordVars, concVars>>

\* Decrypt of what the Encrypt before it returned, of that payload with one
\* byte changed, or of a string from TextPool
DoDecrypt ==
    /\ svc.ok
    /\ \/ /\ op = "Encrypt" /\ sealed.has
          /\ Returned("Decrypt", sealed.out, "sealed", 0, Decrypt(svc, sealed.out))
          /\ UNCHANGED sealed
       \/ /\ op = "Encrypt" /\ sealed.has
          /\ LET blob == SealedBlob
             IN  \E i \in 1..Len(blob), d \in TamperDeltas :
                    LET text == EncodeToString(Tamper(blob, i, d))
                    IN  Returned("Decrypt", text, "tampered", i, Decrypt(svc, text))
          /\ UNCHANGED sealed
       \/ /\ \E text \in TextPool :
                Returned("Decrypt", text, "pool", 0, Decrypt(svc, text))
          /\ sealed' = NoSeal
    /\ UNCHANGED <<svc, seals, recordVars, concVars>>

DoDecryptBytes ==
    /\ svc.ok
    /\ \/ /\ op = "EncryptBytes" /\ sealed.has
          /\ Returned("DecryptBytes", sealed.out, "sealed", 0,
                      DecryptBytes(svc, sealed.out))
          /\ UNCHANGED sealed
       \/ /\ op = "EncryptBytes" /\ sealed.has
          /\ \E i \in 1..Len(sealed.out), d \in TamperDeltas :
                LET blob == Tamper(sealed.out, i, d)
                IN  Returned("DecryptBytes", blob, "tampered", i,
                             DecryptBytes(svc, blob))
          /\ UNCHANGED sealed
       \/ /\ \E blob \in BlobPool :
                Returned("DecryptBytes", blob, "pool", 0, DecryptBytes(svc, blob))
          /\ sealed' = NoSeal
    /\ UNCHANGED <<svc, seals, recordVars, concVars>>

Next ==
    \/ DoNewService
    \/ DoEncrypt
    \/ DoEncryptBytes
    \/ DoDecrypt
    \/ DoDecryptBytes

Spec == Init /\ [][Next]_vars


----------------------------------------------------------------------------
(* Payloads that are long enough and do not authenticate: sealed by a      *)
(* Service that has another key, or cut short somewhere after the nonce.   *)

\* the keys NewService accepts
ValidKeys == {key \in KeyPool : NewService(key).err = nil}

InitForged ==
    /\ \E key \in ValidKeys : svc = NewService(key).svc
    /\ op = "NewService" /\ arg = svc.gcm /\ origin = "fresh" /\ tamperAt = 0
    /\ out = <<>> /\ err = nil /\ reads = 0 /\ aead = 0
    /\ sealed = NoSeal
    /\ seals = <<>>
    /\ InitRecordIdle
    /\ InitConcIdle

\* the encryptions whose payloads are handed on: of a non-empty plaintext,
\* with a nonce rand.Reader gave
Sealings(s, mode) ==
    {[key |-> s.gcm, pt |-> pt,
      r |-> IF mode = "text" THEN Encrypt(s, pt, rnd) ELSE EncryptBytes(s, pt, rnd)] :
        pt \in Plain \ {<<>>}, rnd \in {x \in RandOutcomes : x.ok}}

\* the lengths a payload of len bytes is cut to: the nonce alone, the nonce
\* and one byte, one byte less than nonce and tag, nonce and tag, and all
\* but the last byte
CutLengths(len) ==
    {n \in {NonceSize, NonceSize + 1, NonceSize + TagSize - 1, NonceSize + TagSize,
            len - 1} : n < len}

SealedBy(mode, e) ==
    sealed' = [has |-> TRUE, mode |-> mode, key |-> e.key, pt |-> e.pt,
               nonce |-> e.r.nonce, out |-> e.r.out]

\* Decrypt of what a Service with another key returned from Encrypt, or of a
\* payload of this Service cut to fewer bytes, NonceSize at least
DoDecryptForged ==
    /\ svc.ok
    /\ \/ \E key \in ValidKeys \ {svc.gcm} :
             \E e \in Sealings(NewService(key).svc, "text") :
                /\ Returned("Decrypt", e.r.out, "foreign", 0, Decrypt(svc, e.r.out))
                /\ SealedBy("text", e)
       \/ \E e \in Sealings(svc, "text") :
             LET blob == DecodeString(e.r.out).data
             IN  \E n \in CutLengths(Len(blob)) :
                    LET text == EncodeToString(Take(blob, n))
                    IN  /\ Returned("Decrypt", text, "truncated", n, Decrypt(svc, text))
                        /\ SealedBy("text", e)
    /\ UNCHANGED <<svc, seals, recordVars, concVars>>

DoDecryptBytesForged ==
    /\ svc.ok
    /\ \/ \E key \in ValidKeys \ {svc.gcm} :
             \E e \in Sealings(NewService(key).svc, "bytes") :
                /\ Returned("DecryptBytes", e.r.out, "foreign", 0,
                            DecryptBytes(svc, e.r.out))
                /\ SealedBy("bytes", e)
       \/ \E e \in Sealings(svc, "bytes") :
             \E n \in CutLengths(Len(e.r.out)) :
                LET blob == Take(e.r.out, n)
                IN  /\ Returned("DecryptBytes", blob, "truncated", n,
                                DecryptBytes(svc, blob))
                    /\ SealedBy("bytes", e)
    /\ UNCHANGED <<svc, seals, recordVars, concVars>>

NextForged ==
    \/ DoDecryptForged
    \/ DoDecryptBytesForged

SpecForged == InitForged /\ [][NextForged]_vars

----------------------------------------------------------------------------
(* A run of encryptions under one key; seals keeps, for every encryption   *)
(* that succeeded, its mode, its plaintext, the bytes rand.Reader gave it  *)
(* and what it returned.                                                   *)

FreshKey == Fill(16, 7)
FreshPlain == {<<>>, <<65>>, <<65, 66>>}

InitFresh ==
    /\ svc = NewService(FreshKey).svc
    /\ op = "NewService" /\ arg = FreshKey /\ origin = "fresh" /\ tamperAt = 0
    /\ out = <<>> /\ err = nil /\ reads = 0 /\ aead = 0
    /\ sealed = NoSeal
    /\ seals = <<>>
    /\ InitRecordIdle
    /\ InitConcIdle

Logged(mode, pt, rnd, r) ==
    seals' = IF r.err = nil /\ r.reads > 0
             THEN Append(seals, [mode |-> mode, pt |-> pt, rnd |-> rnd.bytes,
                                 out |-> r.out])
             ELSE seals

EncryptAgain ==
    /\ Len(seals) < MaxSeals
    /\ \E plaintext \in FreshPlain, rnd \in RandOutcomes :
        LET r == Encrypt(svc, plaintext, rnd)
        IN  /\ Returned("Encrypt", plaintext, "fresh", 0, r)
            /\ Remember("text", plaintext, r)
            /\ Logged("text", plaintext, rnd, r)
    /\ UNCHANGED <<svc, recordVars, concVars>>

EncryptBytesAgain ==
    /\ Len(seals) < MaxSeals
    /\ \E plaintext \in FreshPlain, rnd \in RandOutcomes :
        LET r == EncryptBytes(svc, plaintext, rnd)
        IN  /\ Returned("EncryptBytes", plaintext, "fresh", 0, r)
            /\ Remember("bytes", plaintext, r)
            /\ Logged("bytes", plaintext, rnd, r)
    /\ UNCHANGED <<svc, recordVars, concVars>>

NextFresh ==
    \/ EncryptAgain
    \/ EncryptBytesAgain

SpecFresh == InitFresh /\ [][NextFresh]_vars

----------------------------------------------------------------------------
(* The record transformer as a state machine: one record, owned by the     *)
(* caller, and one action per record-level function.                       *)

StrField(name, tag, exported, str) ==
    [name |-> name, tag |-> tag, kind |-> "string", exported |-> exported,
     embedded |-> FALSE, str |-> str, sub |-> <<>>]
IntField(name, tag) ==
    [name |-> name, tag |-> tag, kind |-> "int", exported |-> TRUE,
     embedded |-> FALSE, str |-> <<>>, sub |-> <<>>]
PtrField(name, tag) ==
    [name |-> name, tag |-> tag, kind |-> "ptr", exported |-> TRUE,
     embedded |-> FALSE, str |-> <<>>, sub |-> <<>>]
StructField(name, embedded, sub) ==
    [name |-> name, tag |-> "", kind |-> "struct", exported |-> TRUE,
     embedded |-> embedded, str |-> <<>>, sub |-> sub]

(* type Base struct { Token string `encrypt:"true"` }                      *)
(* type Geo struct { Code string `encrypt:"true"` }                        *)
(* type Address struct { City string `encrypt:"true"`; Geo Geo }           *)
(* type User struct {                                                      *)
(*     Base                                                                *)
(*     Email  string `encrypt:"true"`                                      *)
(*     Name   string                                                       *)
(*     Age    int    `encrypt:"true"`                                      *)
(*     secret string `encrypt:"true"`                                      *)
(*     Note   string `encrypt:"yes"`                                       *)
(*     Addr   Address                                                      *)
(*     Phone  string `encrypt:"true"`                                      *)
(*     Alias  *string `encrypt:"true"`                                     *)
(* }                                                                       *)
User(email, phone) ==
    <<StructField("Base", TRUE, <<StrField("Token", "true", TRUE, <<116>>)>>),
      StrField("Email", "true", TRUE, email),
      StrField("Name", "", TRUE, <<65, 108>>),
      IntField("Age", "true"),
      StrField("secret", "true", FALSE, <<115>>),
      StrField("Note", "yes", TRUE, <<110>>),
      StructField("Addr", FALSE,
          <<StrField("City", "true", TRUE, <<99>>),
            StructField("Geo", FALSE, <<StrField("Code", "true", TRUE, <<103>>)>>)>>),
      StrField("Phone", "true", TRUE, phone),
      PtrField("Alias", "true")>>

\* the records a run starts from: Email "a" or empty, Phone "+1"
InitRecords == {User(<<97>>, <<43, 49>>), User(<<>>, <<43, 49>>)}

\* the name lists passed to EncryptFields / DecryptFields
NameLists ==
    {<<"Name", "Email">>, <<"Nope", "Name">>, <<"Token", "Age", "secret">>,
     <<"City", "Email", "Email">>, <<"Email", "Phone">>}

\* what rand.Reader does during one call: every read succeeds, or the first
\* or the second one fails
Plans == {[seed |-> 0, failAt |-> k] : k \in {0, 1, 2}}

\* how the caller passes the record: &rec, rec, or &p with p == &rec; or
\* what it passes in its place: nil, (*User)(nil), or &n with n an int
Hows == {"ptr", "value", "ptrptr", "nil", "nilptr", "ptrint"}

\* the key of the Service the record runs use
RecordKey == Fill(32, 7)

InitRecord ==
    /\ svc = NewService(RecordKey).svc
    /\ op = "NewService" /\ arg = RecordKey /\ origin = "fresh" /\ tamperAt = 0
    /\ out = <<>> /\ err = nil /\ reads = 0 /\ aead = 0
    /\ sealed = NoSeal
    /\ seals = <<>>
    /\ rec \in InitRecords /\ pre = rec /\ rop = "none" /\ rhow = "ptr"
    /\ rnames = <<>> /\ rerr = nil /\ rfail = 0 /\ rcore = 0 /\ rcalls = 0
    /\ trail = <<>>
    /\ InitConcIdle

\* a call that panicked has ended the program
RecordReturned(name, how, names, r) ==
    /\ rerr # Panic
    /\ rop' = name /\ rhow' = how /\ rnames' = names
    /\ pre' = rec /\ rec' = r.rec /\ rerr' = r.err /\ rfail' = r.fail
    /\ rcore' = r.calls /\ rcalls' = rcalls + 1
    /\ trail' = Append(trail, [op |-> name, how |-> how, names |-> names,
                               err |-> r.err, before |-> rec])
    /\ UNCHANGED <<cipherVars, seals, concVars>>

Passed(how) == [how |-> how, rec |-> rec]

DoEncryptStruct ==
    /\ rcalls < MaxCalls
    /\ \E how \in Hows, plan \in Plans :
        RecordReturned("EncryptStruct", how, <<>>,
                       EncryptStruct(svc, Passed(how), plan))

DoDecryptStruct ==
    /\ rcalls < MaxCalls
    /\ \E how \in Hows :
        RecordReturned("DecryptStruct", how, <<>>, DecryptStruct(svc, Passed(how)))

DoEncryptFields ==
    /\ rcalls < MaxCalls
    /\ \E how \in Hows, fieldNames \in NameLists, plan \in Plans :
        RecordReturned("EncryptFields", how, fieldNames,
                       EncryptFields(svc, Passed(how), fieldNames, plan))

DoDecryptFields ==
    /\ rcalls < MaxCalls
    /\ \E how \in Hows, fieldNames \in NameLists :
        RecordReturned("DecryptFields", how, fieldNames,
                       DecryptFields(svc, Passed(how), fieldNames))

NextRecord ==
    \/ DoEncryptStruct
    \/ DoDecryptStruct
    \/ DoEncryptFields
    \/ DoDecryptFields

SpecRecord == InitRecord /\ [][NextRecord]_vars


----------------------------------------------------------------------------
(* EncryptStruct called again on a record it has encrypted (a BeforeInsert  *)
(* and then a BeforeUpdate hook on the same value), and the DecryptStruct   *)
(* calls that follow.                                                       *)

\* the records a run starts from: those of InitRecords, and one whose Email
\* is itself standard base64 of NonceSize bytes ("AAAAAAAAAAAAAAAA")
LayerRecords == InitRecords \cup {User(Fill(16, 65), <<43, 49>>)}

\* what rand.Reader does during one EncryptStruct: every read succeeds, with
\* one of two streams of nonces, or the second read fails
LayerPlans == {[seed |-> sd, failAt |-> k] : sd \in {0, 1}, k \in {0, 2}}

\* the calls of a name made so far
CallsOf(name) == Cardinality({k \in 1..Len(trail) : trail[k].op = name})

InitLayers ==
    /\ svc = NewService(RecordKey).svc
    /\ op = "NewService" /\ arg = RecordKey /\ origin = "fresh" /\ tamperAt = 0
    /\ out = <<>> /\ err = nil /\ reads = 0 /\ aead = 0
    /\ sealed = NoSeal
    /\ seals = <<>>
    /\ rec \in LayerRecords /\ pre = rec /\ rop = "none" /\ rhow = "ptr"
    /\ rnames = <<>> /\ rerr = nil /\ rfail = 0 /\ rcore = 0 /\ rcalls = 0
    /\ trail = <<>>
    /\ InitConcIdle

\* one more EncryptStruct(&rec), before any DecryptStruct
EncryptStructAgain ==
    /\ CallsOf("EncryptStruct") < MaxLayers
    /\ CallsOf("DecryptStruct") = 0
    /\ \E plan \in LayerPlans :
        RecordReturned("EncryptStruct", "ptr", <<>>,
                       EncryptStruct(svc, Passed("ptr"), plan))

\* one more DecryptStruct(&rec), up to one more than there were EncryptStruct
DecryptStructAgain ==
    /\ CallsOf("EncryptStruct") >= 1
    /\ CallsOf("DecryptStruct") <= CallsOf("EncryptStruct")
    /\ RecordReturned("DecryptStruct", "ptr", <<>>, DecryptStruct(svc, Passed("ptr")))

NextLayers ==
    \/ EncryptStructAgain
    \/ DecryptStructAgain

SpecLayers == InitLayers /\ [][NextLayers]_vars

----------------------------------------------------------------------------
(* Goroutines calling one Service at the same time.  A call is cut where   *)
(* another goroutine can run between two of its statements: entering (the  *)
(* checks on the argument, the allocation of the nonce buffer), the read   *)
(* of rand.Reader into the buffer, and gcm.Seal / gcm.Open with the return *)
(* that follows.  rand.Reader is safe for concurrent use: every read gets  *)
(* its own outcome.                                                        *)

Encrypting == {"Encrypt", "EncryptBytes"}
Decrypting == {"Decrypt", "DecryptBytes"}

ConcKey == Fill(24, 7)

\* "" and "Hi"
ConcPlain == {<<>>, <<72, 105>>}

\* a payload of "OK" sealed under ConcKey, and that payload with the first
\* byte of its ciphertext changed
ConcPayload ==
    EncryptBytes(NewService(ConcKey).svc, <<79, 75>>,
                 [ok |-> TRUE, bytes |-> Fill(NonceSize, 9)]).out
ConcBlobs == {ConcPayload, Tamper(ConcPayload, NonceSize + 1, 1)}
ConcTexts == {EncodeToString(b) : b \in ConcBlobs}

\* the arguments a caller may pass to a function
ConcArgs(fn) ==
    IF fn \in {"Encrypt", "EncryptBytes"} THEN ConcPlain
    ELSE IF fn = "Decrypt" THEN ConcTexts
    ELSE ConcBlobs

InitConc ==
    /\ svc = NewService(ConcKey).svc
    /\ op = "NewService" /\ arg = ConcKey /\ origin = "fresh" /\ tamperAt = 0
    /\ out = <<>> /\ err = nil /\ reads = 0 /\ aead = 0
    /\ sealed = NoSeal
    /\ seals = <<>>
    /\ InitRecordIdle
    /\ InitConcIdle

\* one nonce buffer kept for all the calls on a Service
NonceBufferOfService(p) == 1

\* the nonce buffer of a call: the one it made itself
NonceBuffer(p) == p

\* the calls in flight next to p
InFlight(p) == {q \in Callers \ {p} : calls[q].pc \notin {"idle", "done"}}

\* call p returns
Done(p, o, e) ==
    calls' = [calls EXCEPT ![p].pc = "done", ![p].out = o, ![p].err = e,
                           ![p].with = InFlight(p)]

\* the bytes a decrypting call hands to gcm.Open, if it gets that far
\* ([err, data], err for the ErrInvalidData return)
Framed(fn, a) ==
    LET dec == IF fn = "Decrypt" THEN DecodeString(a) ELSE [err |-> FALSE, data |-> a]
    IN  [err |-> dec.err \/ Len(dec.data) < NonceSize, data |-> dec.data]

\* a goroutine enters a function of the Service: the early returns, and for
\* an encryption the make of its nonce buffer
Enter(p) ==
    /\ calls[p].pc = "idle"
    /\ \E fn \in Encrypting \cup Decrypting :
         \E a \in ConcArgs(fn) :
            LET c == [calls[p] EXCEPT !.fn = fn, !.arg = a]
            IN  IF Len(a) = 0
                THEN /\ calls' = [calls EXCEPT ![p] = [c EXCEPT !.pc = "done",
                                                               !.with = InFlight(p)]]
                     /\ UNCHANGED nonces
                ELSE IF fn \in Encrypting
                THEN /\ calls' = [calls EXCEPT ![p] = [c EXCEPT !.pc = "read"]]
                     /\ nonces' = [nonces EXCEPT ![NonceBuffer(p)] = Fill(NonceSize, 0)]
                ELSE IF Framed(fn, a).err
                THEN /\ calls' = [calls EXCEPT ![p] = [c EXCEPT !.pc = "done",
                                                               !.err = ErrInvalidData,
                                                               !.with = InFlight(p)]]
                     /\ UNCHANGED nonces
                ELSE /\ calls' = [calls EXCEPT ![p] = [c EXCEPT !.pc = "open"]]
                     /\ UNCHANGED nonces
    /\ UNCHANGED <<cipherVars, seals, recordVars>>

\* io.ReadFull(rand.Reader, nonce) of call p
ReadNonce(p) ==
    /\ calls[p].pc = "read"
    /\ \E rnd \in RandOutcomes :
         IF ~rnd.ok
         THEN /\ calls' = [calls EXCEPT ![p].pc = "done", ![p].rnd = rnd,
                                        ![p].err = ErrEncryptionFailed,
                                        ![p].with = InFlight(p)]
              /\ UNCHANGED nonces
         ELSE /\ calls' = [calls EXCEPT ![p].pc = "seal", ![p].rnd = rnd]
              /\ nonces' = [nonces EXCEPT ![NonceBuffer(p)] = rnd.bytes]
    /\ UNCHANGED <<cipherVars, seals, recordVars>>

\* gcm.Seal(nonce, nonce, plaintext, nil) of call p, and its return
SealUnderNonce(p) ==
    /\ calls[p].pc = "seal"
    /\ LET nonce == nonces[NonceBuffer(p)]
           ciphertext == Seal(svc.gcm, nonce, nonce, calls[p].arg)
       IN  Done(p, IF calls[p].fn = "Encrypt" THEN EncodeToString(ciphertext)
                   ELSE ciphertext, nil)
    /\ UNCHANGED <<cipherVars, seals, recordVars, nonces>>

\* gcm.Open(nil, nonce, encrypted, nil) of call p, and its return
OpenUnderNonce(p) ==
    /\ calls[p].pc = "open"
    /\ LET data == Framed(calls[p].fn, calls[p].arg).data
           opened == Open(svc.gcm, Take(data, NonceSize), Drop(data, NonceSize))
       IN  IF opened.err THEN Done(p, <<>>, ErrDecryptionFailed)
           ELSE Done(p, opened.plaintext, nil)
    /\ UNCHANGED <<cipherVars, seals, recordVars, nonces>>

NextConc ==
    \/ \E p \in Callers : Enter(p)
    \/ \E p \in Callers : ReadNonce(p)
    \/ \E p \in Callers : SealUnderNonce(p)
    \/ \E p \in Callers : OpenUnderNonce(p)

SpecConc == InitConc /\ [][NextConc]_vars


----------------------------------------------------------------------------
(* Properties of the Cipher Core, checked under Spec.                      *)

\* C1  Round trip: a Decrypt (DecryptBytes) of exactly what the Encrypt
\* (EncryptBytes) before it returned for a non-empty plaintext, on the same
\* Service, whose key has 16, 24 or 32 bytes, returns that plaintext and no
\* error, whichever nonce the encryption drew.
C1_RoundTrip ==
    (op \in Decrypting /\ origin = "sealed") =>
        /\ Len(svc.gcm) \in {16, 24, 32}
        /\ sealed.pt # <<>>
        /\ arg = sealed.out
        /\ err = nil
        /\ out = sealed.pt

\* a text round trip of a plaintext of the greatest length under a 24 byte key
C1_Witness ==
    /\ op = "Decrypt" /\ origin = "sealed"
    /\ Len(svc.gcm) = 24 /\ Len(sealed.pt) = MaxLen
    /\ sealed.nonce \in NoncePool
    /\ out = sealed.pt /\ err = nil

\* C2  Key-length validation (the claim as the specification states it):
\* NewService succeeds for keys of 16, 24 and 32 bytes, and for every other
\* length it returns ErrInvalidKeyLength and no Service.
C2_KeyLengthValidation ==
    op = "NewService" =>
        IF Len(arg) \in {16, 24, 32}
        THEN err = nil /\ svc.ok /\ svc.gcm = arg
        ELSE err = ErrInvalidKeyLength /\ ~svc.ok

\* C3  Tamper detection: a decryption, under the same key, of a sealed payload
\* in which one byte (of the nonce, of the ciphertext body or of the tag) was
\* changed returns ErrDecryptionFailed and no plaintext.
C3_TamperDetected ==
    (op \in Decrypting /\ origin = "tampered") =>
        /\ tamperAt \in 1..(NonceSize + Len(sealed.pt) + TagSize)
        /\ err = ErrDecryptionFailed
        /\ out = <<>>

\* a text payload tampered in its ciphertext body was rejected
C3_Witness ==
    /\ op = "Decrypt" /\ origin = "tampered"
    /\ tamperAt > NonceSize /\ tamperAt <= NonceSize + Len(sealed.pt)
    /\ arg # sealed.out
    /\ err = ErrDecryptionFailed

\* C4  Empty-value no-op: Encrypt, Decrypt, EncryptBytes and DecryptBytes of a
\* zero-length argument return a zero-length result and no error, read
\* nothing from rand.Reader and do not invoke the AEAD.
C4_EmptyNoOp ==
    (op \in Encrypting \cup Decrypting /\ Len(arg) = 0) =>
        out = <<>> /\ err = nil /\ reads = 0 /\ aead = 0

C4_Witness == op = "Encrypt" /\ arg = <<>> /\ out = <<>> /\ err = nil

\* C5  Malformed input: Decrypt of a non-empty string that is not standard
\* base64 fails with ErrInvalidData, and Decrypt / DecryptBytes of a non-empty
\* blob shorter than NonceSize fails with ErrInvalidData; gcm.Open is not
\* invoked in either case.
C5_MalformedInput ==
    /\ (op = "Decrypt" /\ arg # <<>> /\ (arg \in NotBase64Texts \/ DecodeString(arg).err))
            => (err = ErrInvalidData /\ out = <<>> /\ aead = 0)
    /\ (op = "Decrypt" /\ arg # <<>> /\ ~DecodeString(arg).err
            /\ Len(DecodeString(arg).data) < NonceSize)
            => (err = ErrInvalidData /\ out = <<>> /\ aead = 0)
    /\ (op = "DecryptBytes" /\ Len(arg) > 0 /\ Len(arg) < NonceSize)
            => (err = ErrInvalidData /\ out = <<>> /\ aead = 0)

\* Decrypt("not-base64!!") was refused
C5_Witness == op = "Decrypt" /\ arg = NotBase64 /\ err = ErrInvalidData


----------------------------------------------------------------------------
(* Properties of the record transformer, checked under SpecRecord.         *)

\* a field the tag-driven calls transform: tagged encrypt:"true", a string,
\* exported, not empty
Protected(field) ==
    field.tag = "true" /\ field.kind = "string" /\ field.exported /\ field.str # <<>>

\* a field the name-driven calls transform when its name is given
Nameable(field) == field.kind = "string" /\ field.exported /\ field.str # <<>>

\* after is before with its string encrypted: another string, which Decrypt
\* maps back to it
EncryptedFrom(before, after) ==
    /\ after = [before EXCEPT !.str = after.str]
    /\ after.str # before.str
    /\ Decrypt(svc, after.str).err = nil
    /\ Decrypt(svc, after.str).out = before.str

\* after is before with its string decrypted
DecryptedFrom(before, after) ==
    /\ after = [before EXCEPT !.str = after.str]
    /\ after.str # before.str
    /\ Decrypt(svc, before.str).err = nil
    /\ Decrypt(svc, before.str).out = after.str

\* C6  Selective field transform: after EncryptStruct(&rec) every field whose
\* encrypt tag is not exactly "true" holds its value from before the call, and,
\* when the call returned nil, every exported string field tagged
\* encrypt:"true" with a non-empty value v holds a value different from v that
\* Decrypt maps back to v.
C6_SelectiveTransform ==
    (rop = "EncryptStruct" /\ rhow = "ptr") =>
        /\ Len(rec) = Len(pre)
        /\ \A i \in 1..Len(pre) : pre[i].tag # "true" => rec[i] = pre[i]
        /\ rerr = nil =>
              \A i \in 1..Len(pre) : Protected(pre[i]) => EncryptedFrom(pre[i], rec[i])

\* Email "a" was encrypted; Name and Note (tagged "yes") were there to be left alone
C6_Witness ==
    /\ rop = "EncryptStruct" /\ rhow = "ptr" /\ rerr = nil
    /\ pre[2].name = "Email" /\ pre[2].str = <<97>> /\ rec[2].str # <<97>>
    /\ rec[3].name = "Name" /\ rec[6].tag = "yes"

RECURSIVE EncryptedDeep(_, _)
\* every protected field of a struct value, at whatever depth, was encrypted
EncryptedDeep(before, after) ==
    \A i \in 1..Len(before) :
        IF before[i].kind = "struct" THEN EncryptedDeep(before[i].sub, after[i].sub)
        ELSE Protected(before[i]) => EncryptedFrom(before[i], after[i])

\* C7  Nested traversal (the claim as the specification states it): after a
\* successful EncryptStruct(&rec) a protected string field is encrypted
\* whether it is a field of the record, of a struct inside the record or of a
\* struct inside that one.
C7_NestedTraversal ==
    (rop = "EncryptStruct" /\ rhow = "ptr" /\ rerr = nil) => EncryptedDeep(pre, rec)

\* the top-level fields a list of names can reach: those of that name and the
\* embedded structs that promote a field of that name
Reached(val, names) ==
    {i \in 1..Len(val) :
        \E k \in 1..Len(names) :
            \/ val[i].name = names[k]
            \/ /\ val[i].embedded
               /\ \E j \in 1..Len(val[i].sub) : val[i].sub[j].name = names[k]}

NamedOnce(names, name) == Cardinality({k \in 1..Len(names) : names[k] = name}) = 1

\* C8  Named-field mode ignores metadata: EncryptFields / DecryptFields on
\* &rec that return nil have transformed every exported, non-empty string
\* field of the record that is named (once) in the call, whatever its encrypt
\* tag; a name no field has causes no error and no change: the call fails only
\* at a name that has a field, and changes only fields the names reach.
C8_NamedIgnoresTag ==
    (rop \in {"EncryptFields", "DecryptFields"} /\ rhow = "ptr") =>
        /\ Len(rec) = Len(pre)
        /\ rerr = nil =>
              \A i \in 1..Len(pre) :
                  (Nameable(pre[i]) /\ NamedOnce(rnames, pre[i].name)) =>
                      IF rop = "EncryptFields" THEN EncryptedFrom(pre[i], rec[i])
                      ELSE DecryptedFrom(pre[i], rec[i])
        /\ \A i \in 1..Len(pre) : rec[i] # pre[i] => i \in Reached(pre, rnames)
        /\ rerr # nil => Reached(pre, <<rnames[rfail]>>) # {}

\* EncryptFields(&rec, "Nope", "Name"): Name, which has no tag, was encrypted
\* and "Nope", which no field has, was skipped
C8_Witness ==
    /\ rop = "EncryptFields" /\ rhow = "ptr" /\ rnames = <<"Nope", "Name">>
    /\ rerr = nil
    /\ pre[3].name = "Name" /\ pre[3].tag = "" /\ rec[3].str # pre[3].str
    /\ Reached(pre, <<"Nope">>) = {}

\* the field a failed call stopped at, as the call left it
FailedField ==
    IF rop \in {"EncryptStruct", "DecryptStruct"} THEN rec[rfail]
    ELSE FieldAt(rec, FieldByName(rec, rnames[rfail]))

\* the top-level fields a failed call handled before the one it stopped at
Earlier ==
    IF rop \in {"EncryptStruct", "DecryptStruct"}
    THEN {i \in 1..(rfail - 1) : Protected(pre[i])}
    ELSE {i \in 1..Len(pre) :
            /\ Nameable(pre[i])
            /\ NamedOnce(SubSeq(rnames, 1, rfail - 1), pre[i].name)
            /\ rnames[rfail] # pre[i].name}

\* C9  Partial effect on failure: a record-level call that returns an error
\* returns the error the Cipher Core returned for the field it stopped at
\* (ErrEncryptionFailed from Encrypt; the error of Decrypt on that field's
\* value), and the fields it transformed before that field keep the
\* transformed value.
C9_PartialEffect ==
    (rerr # nil /\ rhow = "ptr") =>
        /\ rfail > 0
        /\ rop \in {"EncryptStruct", "EncryptFields"} => rerr = ErrEncryptionFailed
        /\ rop \in {"DecryptStruct", "DecryptFields"} =>
              /\ rerr \in {ErrInvalidData, ErrDecryptionFailed}
              /\ rerr = Decrypt(svc, FailedField.str).err
        /\ rop \in {"EncryptStruct", "DecryptStruct"} => FailedField = pre[rfail]
        /\ (rop \in {"EncryptFields", "DecryptFields"}
                /\ \A k \in 1..(rfail - 1) : rnames[k] # rnames[rfail]) =>
              FailedField = FieldAt(pre, FieldByName(pre, rnames[rfail]))
        /\ \A i \in Earlier :
              IF rop \in {"EncryptStruct", "EncryptFields"}
              THEN EncryptedFrom(pre[i], rec[i])
              ELSE DecryptedFrom(pre[i], rec[i])

\* DecryptStruct decrypted Email and then failed at Phone, which held no base64
C9_Witness ==
    /\ rop = "DecryptStruct" /\ rhow = "ptr"
    /\ rerr = ErrInvalidData /\ rfail = 8 /\ pre[8].name = "Phone"
    /\ Protected(pre[2]) /\ rec[2].str # pre[2].str /\ rec[2].str = <<97>>


----------------------------------------------------------------------------
(* Nonces, checked under SpecFresh.                                        *)

\* the sealed payload (nonce, ciphertext, tag) an encryption returned
PayloadOf(e) == IF e.mode = "text" THEN DecodeString(e.out).data ELSE e.out

\* C10 (as stated)  Nonce freshness: over a sequence of encryptions under one
\* key no nonce is used twice, and two encryptions of the same plaintext
\* return different ciphertexts.
C10_NoNonceReuse ==
    \A i, j \in 1..Len(seals) :
        i < j =>
            /\ seals[i].rnd # seals[j].rnd
            /\ seals[i].pt = seals[j].pt => PayloadOf(seals[i]) # PayloadOf(seals[j])

\* C10 (amended)  Every Encrypt / EncryptBytes call with non-empty input reads
\* rand.Reader once and uses the NonceSize bytes it got, whatever they are, as
\* the nonce its payload starts with; two encryptions under one key that got
\* different bytes return different payloads, and two that return the same
\* payload got the same bytes and the same plaintext.
C10_NonceIsWhatReaderGave ==
    /\ (op \in Encrypting /\ arg # <<>>) => reads = 1
    /\ \A i \in 1..Len(seals) :
          /\ Len(seals[i].rnd) = NonceSize
          /\ Take(PayloadOf(seals[i]), NonceSize) = seals[i].rnd
    /\ \A i, j \in 1..Len(seals) :
          /\ seals[i].rnd # seals[j].rnd => PayloadOf(seals[i]) # PayloadOf(seals[j])
          /\ PayloadOf(seals[i]) = PayloadOf(seals[j]) =>
                (seals[i].rnd = seals[j].rnd /\ seals[i].pt = seals[j].pt)

\* the same plaintext encrypted twice, with two nonces, to two ciphertexts
C10_Witness ==
    /\ Len(seals) >= 2
    /\ seals[1].mode = "text" /\ seals[2].mode = "text"
    /\ seals[1].pt = seals[2].pt
    /\ seals[1].rnd # seals[2].rnd
    /\ seals[1].out # seals[2].out

----------------------------------------------------------------------------
(* The sealed payload and its text form, checked under Spec.               *)

\* C11  Payload format: what EncryptBytes returns for a non-empty plaintext
\* is the nonce it drew followed by the output of gcm.Seal for that nonce,
\* that plaintext and no associated data (ciphertext, then the tag), and
\* nothing else; what Encrypt returns is the standard base64 encoding of
\* exactly that blob; Decrypt opens the bytes after the first NonceSize of
\* the decoded blob under the nonce those first NonceSize bytes are.
C11_PayloadFormat ==
    /\ (op \in Encrypting /\ arg # <<>> /\ err = nil) =>
          LET blob == sealed.nonce \o Seal(svc.gcm, <<>>, sealed.nonce, arg)
          IN  /\ sealed.has /\ Len(sealed.nonce) = NonceSize
              /\ Len(blob) = NonceSize + Len(arg) + TagSize
              /\ op = "EncryptBytes" => out = blob
              /\ op = "Encrypt" =>
                    /\ out = EncodeToString(blob)
                    /\ ~DecodeString(out).err /\ DecodeString(out).data = blob
    /\ (op = "Decrypt" /\ ~DecodeString(arg).err
            /\ Len(DecodeString(arg).data) >= NonceSize) =>
          LET data   == DecodeString(arg).data
              opened == Open(svc.gcm, SubSeq(data, 1, NonceSize),
                             SubSeq(data, NonceSize + 1, Len(data)))
          IN  /\ aead = 1
              /\ err = nil <=> ~opened.err
              /\ err = nil => out = opened.plaintext

\* Encrypt returned the base64 text of nonce, ciphertext and tag of a
\* plaintext of the greatest length
C11_Witness ==
    /\ op = "Encrypt" /\ err = nil /\ Len(arg) = MaxLen
    /\ Len(DecodeString(out).data) = NonceSize + MaxLen + TagSize
    /\ SubSeq(DecodeString(out).data, 1, NonceSize) = sealed.nonce


----------------------------------------------------------------------------
(* How the record is passed, checked under SpecRecord.                     *)

\* what the same call does to the record as it was before, given &rec
ThroughPtr == [how |-> "ptr", rec |-> pre]

\* C12  Reference to a reference (the claim as the specification states it):
\* a record-level call given a pointer to a pointer to the record does not
\* panic and transforms the record as the call given &rec does: the
\* decrypting calls leave the record they leave when given &rec, and the
\* encrypting calls that return nil have encrypted every field they encrypt
\* when given &rec.
C12_ReferenceToReference ==
    (rop # "none" /\ rhow = "ptrptr") =>
        /\ rerr # Panic
        /\ rop = "DecryptStruct" =>
              /\ rec = DecryptStruct(svc, ThroughPtr).rec
              /\ rerr = DecryptStruct(svc, ThroughPtr).err
        /\ rop = "DecryptFields" =>
              /\ rec = DecryptFields(svc, ThroughPtr, rnames).rec
              /\ rerr = DecryptFields(svc, ThroughPtr, rnames).err
        /\ (rop = "EncryptStruct" /\ rerr = nil) =>
              \A i \in 1..Len(pre) : Protected(pre[i]) => EncryptedFrom(pre[i], rec[i])
        /\ (rop = "EncryptFields" /\ rerr = nil) =>
              \A i \in 1..Len(pre) :
                  (Nameable(pre[i]) /\ NamedOnce(rnames, pre[i].name)) =>
                      EncryptedFrom(pre[i], rec[i])

\* C13  Mutation through reference only: a record-level call given the
\* record by value returns nil, makes no Encrypt or Decrypt call and leaves
\* every field of the caller's record as it was.
C13_ByValueNoEffect ==
    (rop # "none" /\ rhow = "value") =>
        /\ rerr = nil
        /\ rcore = 0
        /\ rec = pre

\* EncryptFields(rec, "Name", "Email") on a record whose Email and Name are
\* set, and DecryptStruct(rec) on a record &rec had been encrypted through
C13_Witness ==
    /\ rhow = "value" /\ rerr = nil /\ rec = pre
    /\ \/ /\ rop = "EncryptFields" /\ rnames = <<"Name", "Email">>
          /\ Nameable(pre[2]) /\ Nameable(pre[3])
       \/ /\ rop = "DecryptStruct"
          /\ Protected(pre[2]) /\ Decrypt(svc, pre[2].str).err = nil


----------------------------------------------------------------------------
(* Calls that overlap, checked under SpecConc.                             *)

\* what call c returns when no other call runs on the Service
Alone(c) ==
    IF c.fn = "Encrypt" THEN Encrypt(svc, c.arg, c.rnd)
    ELSE IF c.fn = "EncryptBytes" THEN EncryptBytes(svc, c.arg, c.rnd)
    ELSE IF c.fn = "Decrypt" THEN Decrypt(svc, c.arg)
    ELSE DecryptBytes(svc, c.arg)

\* C14  Concurrent use of one Service: the Service stays as NewService made
\* it, and whatever calls run next to it and however their steps interleave,
\* a call returns what it returns when it runs alone on the same argument
\* and the same outcome of its rand.Reader read: an encryption returns a
\* payload that decrypts to its own plaintext, a decryption the plaintext
\* (or the error) of its own input.
C14_NoInterference ==
    /\ svc = NewService(ConcKey).svc
    /\ \A p \in Callers :
          calls[p].pc = "done" =>
              LET c == calls[p]
              IN  /\ c.out = Alone(c).out
                  /\ c.err = Alone(c).err
                  /\ (c.fn = "Encrypt" /\ c.err = nil) =>
                        Decrypt(svc, c.out).out = c.arg
                  /\ (c.fn = "EncryptBytes" /\ c.err = nil) =>
                        DecryptBytes(svc, c.out).out = c.arg
                  /\ (c.fn \in Decrypting /\ c.err = nil) => c.out = <<79, 75>>

\* an Encrypt that returned while an EncryptBytes that had drawn another
\* nonce was still running, and a Decrypt next to an encryption
C14_Witness ==
    \E p, q \in Callers :
        /\ calls[p].pc = "done" /\ calls[q].pc = "done"
        /\ q \in calls[p].with
        /\ calls[p].err = nil /\ calls[q].err = nil
        /\ \/ /\ calls[p].fn = "Encrypt" /\ calls[q].fn = "EncryptBytes"
              /\ calls[p].rnd # calls[q].rnd
           \/ /\ calls[p].fn = "Decrypt" /\ calls[q].fn = "Encrypt"


----------------------------------------------------------------------------
(* What a failed record-level call leaves alone, checked under SpecRecord. *)

\* C15  Abort is immediate and in order (the claim as the specification
\* states it): after a record-level call that returned an error, the field
\* it failed at and every field after it (the later fields of the struct for
\* EncryptStruct / DecryptStruct, the fields the later names of the list name
\* for EncryptFields / DecryptFields) hold their values from before the call.
C15_AbortLeavesRest ==
    (rerr \notin {nil, Panic} /\ rhow = "ptr") =>
        /\ rop \in {"EncryptStruct", "DecryptStruct"} =>
              \A i \in rfail..Len(pre) : rec[i] = pre[i]
        /\ rop \in {"EncryptFields", "DecryptFields"} =>
              \A k \in rfail..Len(rnames) :
                  LET path == FieldByName(pre, rnames[k])
                  IN  path # <<>> => FieldAt(rec, path) = FieldAt(pre, path)


----------------------------------------------------------------------------
(* Payloads that do not authenticate, checked under SpecForged.            *)

\* C16  Well-formed but not authentic: Decrypt / DecryptBytes of a payload
\* that a Service with another key sealed, or of a payload of this Service
\* cut to a length from NonceSize (nothing left after the nonce) to one byte
\* less than whole, returns ErrDecryptionFailed and no plaintext, whatever
\* the cause: never ErrInvalidData, never nil.
C16_Unauthentic ==
    (op \in Decrypting /\ origin \in {"foreign", "truncated"}) =>
        /\ origin = "foreign" => sealed.key # svc.gcm
        /\ origin = "truncated" =>
              /\ tamperAt >= NonceSize
              /\ tamperAt < NonceSize + Len(sealed.pt) + TagSize
        /\ aead = 1
        /\ err = ErrDecryptionFailed
        /\ out = <<>>

\* DecryptBytes of the NonceSize bytes a payload starts with failed as a
\* decryption
C16_Witness ==
    /\ op = "DecryptBytes" /\ origin = "truncated"
    /\ Len(arg) = NonceSize /\ arg = sealed.nonce
    /\ err = ErrDecryptionFailed


----------------------------------------------------------------------------
(* Results and errors of the Cipher Core, checked under Spec.              *)

\* C17  No unauthenticated plaintext: a Decrypt or DecryptBytes that returns
\* an error returns no plaintext with it, and an Encrypt or EncryptBytes that
\* returns an error returns no ciphertext with it; the errors are the
\* package's own.
C17_ErrorMeansNoData ==
    (op \in Encrypting \cup Decrypting /\ err # nil) =>
        /\ out = <<>>
        /\ op \in Encrypting => err = ErrEncryptionFailed
        /\ op \in Decrypting => err \in {ErrInvalidData, ErrDecryptionFailed}

\* DecryptBytes refused a payload whose tag had been changed, which gcm.Open
\* had been called on
C17_Witness ==
    /\ op = "DecryptBytes" /\ origin = "tampered" /\ tamperAt > NonceSize + Len(sealed.pt)
    /\ aead = 1 /\ err = ErrDecryptionFailed /\ out = <<>>


\* C18  Text mode is byte mode composed with base64 (the claim as the
\* specification states it): Decrypt of a string that decodes as standard
\* base64 to the bytes b returns what DecryptBytes of b returns, the same
\* plaintext or the same error, also when b is empty; and the base64 decoding
\* of what Encrypt returned for a non-empty plaintext is a blob DecryptBytes
\* maps back to that plaintext.
C18_TextIsBytesOverBase64 ==
    /\ (op = "Decrypt" /\ ~DecodeString(arg).err) =>
          LET bytes == DecryptBytes(svc, DecodeString(arg).data)
          IN  out = bytes.out /\ err = bytes.err
    /\ (op = "Encrypt" /\ arg # <<>> /\ err = nil) =>
          /\ ~DecodeString(out).err
          /\ DecryptBytes(svc, DecodeString(out).data).err = nil
          /\ DecryptBytes(svc, DecodeString(out).data).out = arg


----------------------------------------------------------------------------
(* Fields the record-level calls pass over, checked under SpecRecord.      *)

\* a field tagged encrypt:"true" that the tag-driven calls cannot transform:
\* not a string, or not exported
Unsuitable(field) ==
    field.tag = "true" /\ (field.kind # "string" \/ ~field.exported)

\* C19  Protection metadata on an unsuitable member is a no-op: EncryptStruct
\* / DecryptStruct on &rec leave a field tagged encrypt:"true" that is not a
\* string (an int, a pointer to string) or is not exported as it was, do not
\* fail at it, and go on: the protected fields after it are transformed up to
\* the field, if any, at which the call fails.
C19_UnsuitableSkipped ==
    (rop \in {"EncryptStruct", "DecryptStruct"} /\ rhow = "ptr") =>
        \A i \in 1..Len(pre) :
            Unsuitable(pre[i]) =>
                /\ rec[i] = pre[i]
                /\ rfail # i
                /\ \A j \in (i + 1)..Len(pre) :
                      (Protected(pre[j]) /\ (rerr = nil \/ rfail > j)) =>
                          IF rop = "EncryptStruct" THEN EncryptedFrom(pre[j], rec[j])
                          ELSE DecryptedFrom(pre[j], rec[j])

\* EncryptStruct(&rec) passed over Age (an int), secret (unexported) and Alias
\* (a *string) and encrypted Phone, which comes after Age and secret
C19_Witness ==
    /\ rop = "EncryptStruct" /\ rhow = "ptr" /\ rerr = nil
    /\ pre[4].kind = "int" /\ Unsuitable(pre[4]) /\ rec[4] = pre[4]
    /\ pre[5].kind = "string" /\ Unsuitable(pre[5]) /\ rec[5] = pre[5]
    /\ pre[9].kind = "ptr" /\ Unsuitable(pre[9]) /\ rec[9] = pre[9]
    /\ Protected(pre[8]) /\ rec[8].str # pre[8].str


\* C20  Named mode does not reach into nested composites (the claim as the
\* specification states it): EncryptFields / DecryptFields on &rec look a
\* name up among the fields declared on the record itself only, so that no
\* string field of a struct inside the record, an embedded struct included,
\* is transformed: every struct field of the record is as it was.
C20_NamedStaysOnTop ==
    (rop \in {"EncryptFields", "DecryptFields"} /\ rhow = "ptr") =>
        \A i \in 1..Len(pre) : pre[i].kind = "struct" => rec[i] = pre[i]


----------------------------------------------------------------------------
(* Empty fields, checked under SpecRecord.                                 *)

TagDriven == {"EncryptStruct", "DecryptStruct"}
NameDriven == {"EncryptFields", "DecryptFields"}

\* the places of a name in the list of the last call
PlacesOf(name) == {k \in 1..Len(rnames) : rnames[k] = name}

\* field i of the record was, before the last call, an empty string the call
\* was to protect: tagged encrypt:"true" for the tag-driven calls, named for
\* the name-driven ones
EmptyTarget(i) ==
    /\ pre[i].kind = "string" /\ pre[i].exported /\ pre[i].str = <<>>
    /\ IF rop \in TagDriven THEN pre[i].tag = "true" ELSE PlacesOf(pre[i].name) # {}

\* the Encrypt / Decrypt calls the last call had to make if it did not fail:
\* one for every protected field that was not empty, one for every place of
\* the name list that names a string field that was not empty
CoreCallsDue ==
    IF rop \in TagDriven THEN Cardinality({i \in 1..Len(pre) : Protected(pre[i])})
    ELSE Cardinality({k \in 1..Len(rnames) :
                         /\ FieldByName(pre, rnames[k]) # <<>>
                         /\ Nameable(FieldAt(pre, FieldByName(pre, rnames[k])))})

\* the call got as far as field j (tag-driven) or as name k (name-driven)
\* and did not fail there
GotPast(n) == rerr = nil \/ rfail > n

\* C21  Empty protected field: each of the four record-level calls on &rec
\* leaves a tagged (named) string field that holds the empty string empty,
\* does not fail at it and makes no Encrypt / Decrypt call for it, and goes
\* on: the non-empty protected fields after it (the non-empty fields the
\* later names name) are transformed up to where the call fails, if it does.
C21_EmptyFieldSkipped ==
    (rop \in TagDriven \cup NameDriven /\ rhow = "ptr") =>
        \A i \in 1..Len(pre) :
            EmptyTarget(i) =>
                /\ rec[i] = pre[i]
                /\ rerr # nil =>
                      IF rop \in TagDriven THEN rfail # i
                      ELSE rnames[rfail] # pre[i].name
                /\ rcore <= CoreCallsDue
                /\ rerr = nil => rcore = CoreCallsDue
                /\ rop \in TagDriven =>
                      \A j \in (i + 1)..Len(pre) :
                          (Protected(pre[j]) /\ GotPast(j)) =>
                              IF rop = "EncryptStruct" THEN EncryptedFrom(pre[j], rec[j])
                              ELSE DecryptedFrom(pre[j], rec[j])
                /\ rop \in NameDriven =>
                      \A j \in 1..Len(pre) :
                          (/\ Nameable(pre[j]) /\ NamedOnce(rnames, pre[j].name)
                           /\ \E k \in PlacesOf(pre[j].name) :
                                 /\ GotPast(k)
                                 /\ \E e \in PlacesOf(pre[i].name) : e < k) =>
                              IF rop = "EncryptFields" THEN EncryptedFrom(pre[j], rec[j])
                              ELSE DecryptedFrom(pre[j], rec[j])

\* EncryptFields(&rec, "Email", "Phone") with Email empty: Email stayed
\* empty, Phone was encrypted, Encrypt was called once
C21_Witness ==
    /\ rop = "EncryptFields" /\ rhow = "ptr" /\ rnames = <<"Email", "Phone">>
    /\ rerr = nil /\ rcore = 1
    /\ pre[2].name = "Email" /\ pre[2].str = <<>> /\ rec[2].str = <<>>
    /\ pre[8].name = "Phone" /\ rec[8].str # pre[8].str


----------------------------------------------------------------------------
(* Pairs of record-level calls, checked under SpecRecord.                  *)

\* the last call and the call before it
LastCall == trail[Len(trail)]
CallBefore == trail[Len(trail) - 1]

Distinct(names) == \A k, l \in 1..Len(names) : names[k] = names[l] => k = l

\* C22  Record round trip: DecryptStruct(&rec) right after an EncryptStruct
\* (&rec) that returned nil, on the same Service, returns nil and leaves
\* every field of the record as it was before the EncryptStruct; so does
\* DecryptFields(&rec, names) right after an EncryptFields(&rec, names) that
\* returned nil, for the same list of distinct names.
C22_RecordRoundTrip ==
    Len(trail) >= 2 =>
        /\ (/\ CallBefore.op = "EncryptStruct" /\ CallBefore.how = "ptr"
            /\ CallBefore.err = nil
            /\ LastCall.op = "DecryptStruct" /\ LastCall.how = "ptr") =>
                rerr = nil /\ rec = CallBefore.before
        /\ (/\ CallBefore.op = "EncryptFields" /\ CallBefore.how = "ptr"
            /\ CallBefore.err = nil
            /\ LastCall.op = "DecryptFields" /\ LastCall.how = "ptr"
            /\ LastCall.names = CallBefore.names /\ Distinct(LastCall.names)) =>
                rerr = nil /\ rec = CallBefore.before

\* EncryptStruct(&rec) encrypted Email and Phone and DecryptStruct(&rec)
\* brought back "a" and "+1"
C22_Witness ==
    /\ Len(trail) = 2
    /\ CallBefore.op = "EncryptStruct" /\ CallBefore.how = "ptr" /\ CallBefore.err = nil
    /\ LastCall.op = "DecryptStruct" /\ LastCall.how = "ptr"
    /\ pre[2].str # <<97>> /\ pre[8].str # <<43, 49>>
    /\ rec[2].str = <<97>> /\ rec[8].str = <<43, 49>>
    /\ rec = CallBefore.before /\ rerr = nil


----------------------------------------------------------------------------
(* Arguments that are no record, checked under SpecRecord.                 *)

\* what is no struct after one Elem()
Unusable == {"ptrptr", "nil", "nilptr", "ptrint"}

\* C23  Named-mode calls never crash on an unusable target (the claim as
\* the specification states it): EncryptFields / DecryptFields given at
\* least one name and nil, a nil pointer, a pointer to a non-struct or a
\* pointer to a pointer return nil, call neither Encrypt nor Decrypt and
\* change nothing, as EncryptStruct / DecryptStruct do for such an argument;
\* they do not panic.
C23_NamedNeverPanics ==
    (rop \in TagDriven \cup NameDriven /\ rhow \in Unusable
        /\ (rop \in NameDriven => Len(rnames) >= 1)) =>
            /\ rerr # Panic
            /\ rerr = nil
            /\ rcore = 0
            /\ rec = pre


----------------------------------------------------------------------------
(* Names given more than once, checked under SpecRecord.                   *)

RECURSIVE Dedup(_)
\* a name list without the repetitions: every name at its first place only
Dedup(names) ==
    IF names = <<>> THEN <<>>
    ELSE LET front == Dedup(SubSeq(names, 1, Len(names) - 1))
             last  == names[Len(names)]
         IN  IF \E k \in 1..Len(front) : front[k] = last THEN front
             ELSE Append(front, last)

\* C24  Each named field is transformed at most once per call (the claim
\* as the specification states it): EncryptFields / DecryptFields on &rec
\* with a list in which a name occurs more than once transform the field of
\* that name once: DecryptFields leaves the record, and returns the error,
\* of the call with the list without its repetitions, and after an
\* EncryptFields that returned nil one Decrypt brings every named field
\* back; no more Encrypt / Decrypt calls are made than fields are named.
C24_NamedOnceEach ==
    (rop \in NameDriven /\ rhow = "ptr" /\ ~Distinct(rnames)) =>
        /\ rop = "DecryptFields" =>
              /\ rec = DecryptFields(svc, ThroughPtr, Dedup(rnames)).rec
              /\ rerr = DecryptFields(svc, ThroughPtr, Dedup(rnames)).err
        /\ (rop = "EncryptFields" /\ rerr = nil) =>
              \A i \in 1..Len(pre) :
                  (Nameable(pre[i]) /\ PlacesOf(pre[i].name) # {}) =>
                      EncryptedFrom(pre[i], rec[i])
        /\ rcore <= Cardinality({i \in 1..Len(pre) :
                                    Nameable(pre[i]) /\ PlacesOf(pre[i].name) # {}})


----------------------------------------------------------------------------
(* Layers of encryption, checked under SpecLayers.                         *)

RECURSIVE Peel(_, _)
\* Decrypt applied n times to a string: [err, out]
Peel(x, n) ==
    IF n = 0 THEN [err |-> nil, out |-> x]
    ELSE LET r == Decrypt(svc, x)
         IN  IF r.err # nil THEN [err |-> r.err, out |-> x] ELSE Peel(r.out, n - 1)

\* the record before the first call, and the layers it has now
Original == trail[1].before
LayersLeft == CallsOf("EncryptStruct") - CallsOf("DecryptStruct")

\* C25  Encryption is layered, not idempotent: after k EncryptStruct(&rec)
\* calls in a row that returned nil and m DecryptStruct(&rec) calls after
\* them, a tagged, non-empty field holds, for m < k, a ciphertext that is
\* not its plaintext and that exactly k - m Decrypt applications, no fewer,
\* bring back to the plaintext; for m = k the plaintext, all calls having
\* returned nil; and for m = k + 1 the plaintext still, the last
\* DecryptStruct having returned ErrInvalidData or ErrDecryptionFailed.
C25_Layered ==
    (/\ Len(trail) >= 1
     /\ \A c \in 1..Len(trail) : trail[c].op = "EncryptStruct" => trail[c].err = nil) =>
        \A i \in 1..Len(Original) :
            Protected(Original[i]) =>
                /\ LayersLeft > 0 =>
                      /\ rerr = nil
                      /\ rec[i].str # Original[i].str
                      /\ Peel(rec[i].str, LayersLeft).err = nil
                      /\ Peel(rec[i].str, LayersLeft).out = Original[i].str
                      /\ \A n \in 0..(LayersLeft - 1) :
                            /\ Peel(rec[i].str, n).err = nil
                            /\ Peel(rec[i].str, n).out # Original[i].str
                /\ LayersLeft = 0 => (rerr = nil /\ rec[i] = Original[i])
                /\ LayersLeft < 0 =>
                      /\ LayersLeft = 0 - 1
                      /\ rerr \in {ErrInvalidData, ErrDecryptionFailed}
                      /\ rec[i] = Original[i]

\* MaxLayers EncryptStruct calls, as many DecryptStruct calls that brought
\* Email "a" back, and one more that failed on it
C25_Witness ==
    /\ CallsOf("EncryptStruct") = MaxLayers
    /\ CallsOf("DecryptStruct") = MaxLayers + 1
    /\ \A c \in 1..(Len(trail) - 1) : trail[c].err = nil
    /\ rerr = ErrInvalidData /\ rfail = 2
    /\ rec[2].str = <<97>> /\ rec = Original


============================================================================
